---- MODULE Spec2Model ----
(***************************************************************************)
(* Model of ml-service/main.py: the traffic prediction service.           *)
(*                                                                         *)
(* State: the module globals traffic_model and scaler, the two persisted   *)
(* artifacts under /app/models, the Redis lists historical_traffic:<seg>   *)
(* and keys prediction:<seg>, and the position of the startup hook and of  *)
(* the request handlers.  Every handler is an `async def` without an       *)
(* await, so the event loop runs one handler at a time; the steps of a     *)
(* handler are separate actions so that a crash of the process and a       *)
(* change of Redis can fall between any two of them.                       *)
(*                                                                         *)
(* Units: congestion values of history entries are in tenths (0.3 = 3),    *)
(* the derived predicted_congestion and confidence are in hundredths       *)
(* (0.95 = 95), speeds are whole km/h.  A mean is kept as the fraction     *)
(* [num, den].  A Redis list is kept run-length encoded: <<raw, n>> is n   *)
(* consecutive copies of the entry raw.                                    *)
(***************************************************************************)
EXTENDS Integers, Sequences, FiniteSets

VARIABLES
    proc,                \* "down", or the position of startup, or "up"
    traffic_model,       \* global traffic_model: None or the run that fitted it
    scaler,              \* global scaler: None or the run that fitted it
    model_pkl,           \* /app/models/traffic_prediction_model.pkl
    scaler_pkl,          \* /app/models/scaler.pkl
    nruns,               \* number of training runs made so far
    tn,                  \* the activation of train_new_model, if any
    redisUp,             \* whether Redis answers
    historical_traffic,  \* Redis lists historical_traffic:<segment>
    prediction_cache,    \* Redis keys prediction:<segment>
    req,                 \* the prediction request being served, or the last response
    train                \* the retrain request being served, or the last response

vars == <<proc, traffic_model, scaler, model_pkl, scaler_pkl, nruns, tn,
          redisUp, historical_traffic, prediction_cache, req, train>>

-----------------------------------------------------------------------------
(* Bounds of the model *)

MaxRuns == 2
MaxHist == 1
MaxBatch == 2

(* Program constants *)

None == 0
MinSamples == 100
BaseSpeed == 50
CacheTtl == 1800
DefaultCongestion == 3

Segments == {"s1", "s2"}
Runs == 1..MaxRuns

-----------------------------------------------------------------------------
(* The persisted artifacts *)

Absent == [state |-> "absent", run |-> 0]
Partial == [state |-> "partial", run |-> 0]
Dumped(r) == [state |-> "ok", run |-> r]

-----------------------------------------------------------------------------
(* History entries and their parsing *)

\* The raw entries the lists hold: text that is no JSON, a JSON list, an
\* object without congestion_factor, an object whose congestion_factor is
\* null, and objects whose congestion_factor is 0.2 or 0.6.
RawEntries == {"not_json", "json_list", "obj_empty", "obj_cf_null",
               "obj_cf_0.2", "obj_cf_0.6"}

Num(n) == [isnum |-> TRUE, n |-> n]
Null == [isnum |-> FALSE, n |-> 0]

\* json.loads: the parsed value, or the JSONDecodeError it raises.
JsonLoads(raw) ==
    CASE raw = "not_json"    -> [type |-> "JSONDecodeError", has_cf |-> FALSE, cf |-> Null]
      [] raw = "json_list"   -> [type |-> "list", has_cf |-> FALSE, cf |-> Null]
      [] raw = "obj_empty"   -> [type |-> "dict", has_cf |-> FALSE, cf |-> Null]
      [] raw = "obj_cf_null" -> [type |-> "dict", has_cf |-> TRUE, cf |-> Null]
      [] raw = "obj_cf_0.2"  -> [type |-> "dict", has_cf |-> TRUE, cf |-> Num(2)]
      [] raw = "obj_cf_0.6"  -> [type |-> "dict", has_cf |-> TRUE, cf |-> Num(6)]

\* The body of the inner try: json.loads, then .get('congestion_factor', 0.3).
\* A decode error, and the AttributeError of .get on a value that is no dict,
\* are swallowed by the bare except; anything else is appended as it is.
TryCongestion(raw) ==
    LET p == JsonLoads(raw) IN
    IF p.type # "dict"
        THEN [appended |-> FALSE, value |-> Null]
        ELSE [appended |-> TRUE,
              value |-> IF p.has_cf THEN p.cf ELSE Num(DefaultCongestion)]

RECURSIVE CongestionValues(_)
\* congestion_values after the loop over historical_data (run-length encoded).
CongestionValues(data) ==
    IF data = <<>> THEN <<>>
    ELSE LET t == TryCongestion(Head(data)[1]) IN
         IF t.appended
             THEN <<(<<t.value, Head(data)[2]>>)>> \o CongestionValues(Tail(data))
             ELSE CongestionValues(Tail(data))

RECURSIVE SumValues(_)
SumValues(vals) ==
    IF vals = <<>> THEN 0
    ELSE Head(vals)[1].n * Head(vals)[2] + SumValues(Tail(vals))

RECURSIVE CountValues(_)
CountValues(vals) ==
    IF vals = <<>> THEN 0 ELSE Head(vals)[2] + CountValues(Tail(vals))

\* np.mean of a non-empty list: a TypeError when an element is no number.
NpMean(vals) ==
    IF \E k \in 1..Len(vals) : ~vals[k][1].isnum
        THEN [raised |-> TRUE, num |-> 0, den |-> 1]
        ELSE [raised |-> FALSE, num |-> SumValues(vals), den |-> CountValues(vals)]

\* avg_historical_congestion for the entries lrange returned.
AvgHistoricalCongestion(data) ==
    LET vals == CongestionValues(data) IN
    IF data # <<>> /\ vals # <<>>
        THEN NpMean(vals)
        ELSE [raised |-> FALSE, num |-> DefaultCongestion, den |-> 1]

\* A training row: where it comes from and its historical_congestion.
Row(source, cf) == [source |-> source, historical_congestion |-> cf]

\* The inner try of the retrain loop: one row per entry that parses to a dict.
RECURSIVE TrainingRows(_)
TrainingRows(data) ==
    IF data = <<>> THEN <<>>
    ELSE LET p == JsonLoads(Head(data)[1]) IN
         IF p.type = "dict"
             THEN <<(<<Row("historical_traffic",
                           IF p.has_cf THEN p.cf ELSE Num(DefaultCongestion)),
                       Head(data)[2]>>)>> \o TrainingRows(Tail(data))
             ELSE TrainingRows(Tail(data))

\* training_data after the scan of every historical_traffic:* key.
TrainingData(store) ==
    TrainingRows(store["s1"]) \o TrainingRows(store["s2"])

-----------------------------------------------------------------------------
(* Requests *)

\* What pydantic hands to the endpoints: a TrafficData has segment_id,
\* current_speed, congestion_factor, traffic_density and timestamp, and no
\* attribute weather_impact (extra fields of the body are dropped).
TrafficData == [segment_id : Segments, has_weather_impact : {FALSE}]

\* What a direct caller of predict_traffic can pass: any object with a
\* segment_id, here one that does carry an attribute weather_impact.
WeatherObjects == [segment_id : Segments, has_weather_impact : {TRUE}]

\* The predicted speeds the Estimator is taken to be able to output.
Speeds == {-10, 0, 25, 50, 70}

NoPrediction == [segment_id |-> "", predicted_speed |-> 0,
                 predicted_congestion |-> 0, confidence |-> 0]

NoHist == [raised |-> FALSE, num |-> 0, den |-> 0]

IdleReq == [kind |-> "none", items |-> <<>>, i |-> 0, pc |-> "idle",
            visited |-> <<>>, hist |-> NoHist,
            startModel |-> None, startScaler |-> None,
            usedModel |-> None, usedScaler |-> None,
            prediction |-> NoPrediction, predictions |-> <<>>,
            status |-> 0, raisedAt |-> ""]

IdleTrain == [pc |-> "idle", training_data |-> <<>>, samples |-> 0,
              raised |-> 0, status |-> 0, run |-> None, fitOn |-> <<>>]

IdleTn == [pc |-> "idle", run |-> None]

\* The rows train_new_model fits on: the 1000 rows it draws itself with
\* np.random.seed(42), kept here as one run of 1000 rows (the values drawn
\* are not modelled).
SampleData == <<(<<Row("np.random.seed(42)", Null), 1000>>)>>

ReqBusy == req.pc \notin {"idle", "done"}
TrainBusy == train.pc \notin {"idle", "done"}

EventLoopFreeThreaded == TRUE

\* The handlers are coroutines that never await: the event loop starts a
\* handler only when no other handler is running.
EventLoopFree == ~ReqBusy /\ ~TrainBusy

-----------------------------------------------------------------------------
(* Initial state: the module has been imported, nothing has run yet *)

Init ==
    /\ proc = "down"
    /\ traffic_model = None
    /\ scaler = None
    /\ model_pkl = Absent
    /\ scaler_pkl = Absent
    /\ nruns = 0
    /\ tn = IdleTn
    /\ redisUp = TRUE
    /\ historical_traffic = [s \in Segments |-> <<>>]
    /\ prediction_cache = [s \in Segments |-> [present |-> FALSE, value |-> NoPrediction, ttl |-> 0]]
    /\ req = IdleReq
    /\ train = IdleTrain

-----------------------------------------------------------------------------
(* The environment: Redis and the process *)

StoreSize == Len(historical_traffic["s1"]) + Len(historical_traffic["s2"])

\* What is appended in one step: one entry, or a bulk of 99 or 100 copies of
\* an entry that parses.
HistoryRuns ==
    (RawEntries \X {1}) \cup ({"obj_cf_0.2"} \X {MinSamples - 1, MinSamples})

\* Another service appends entries to a history list.
RecordHistory(seg, run) ==
    /\ StoreSize < MaxHist
    /\ historical_traffic' = [historical_traffic EXCEPT ![seg] = Append(@, run)]
    /\ UNCHANGED <<proc, traffic_model, scaler, model_pkl, scaler_pkl, nruns, tn,
                   redisUp, prediction_cache, req, train>>

RedisFlip ==
    /\ redisUp' = ~redisUp
    /\ UNCHANGED <<proc, traffic_model, scaler, model_pkl, scaler_pkl, nruns, tn,
                   historical_traffic, prediction_cache, req, train>>

\* The process dies: its globals and its requests are gone, the files stay.
Crash ==
    /\ proc # "down"
    /\ proc' = "down"
    /\ traffic_model' = None
    /\ scaler' = None
    /\ tn' = IdleTn
    /\ req' = IdleReq
    /\ train' = IdleTrain
    /\ UNCHANGED <<model_pkl, scaler_pkl, nruns, redisUp, historical_traffic,
                   prediction_cache>>

-----------------------------------------------------------------------------
(* train_new_model *)

\* Lines 103-140: draw the sample data, split, fit the scaler and the model.
TnFit ==
    /\ tn.pc = "fit"
    /\ nruns < MaxRuns
    /\ nruns' = nruns + 1
    /\ tn' = [tn EXCEPT !.pc = "dump_model", !.run = nruns + 1]
    /\ train' = IF train.pc = "train"
                    THEN [train EXCEPT !.run = nruns + 1, !.fitOn = SampleData]
                    ELSE train
    /\ UNCHANGED <<proc, traffic_model, scaler, model_pkl, scaler_pkl, redisUp,
                   historical_traffic, prediction_cache, req>>

\* joblib.dump opens the file for writing and then writes it.
TnDumpModelOpen ==
    /\ tn.pc = "dump_model"
    /\ model_pkl' = Partial
    /\ tn' = [tn EXCEPT !.pc = "dump_model_write"]
    /\ UNCHANGED <<proc, traffic_model, scaler, scaler_pkl, nruns, redisUp,
                   historical_traffic, prediction_cache, req, train>>

TnDumpModelWrite ==
    /\ tn.pc = "dump_model_write"
    /\ model_pkl' = Dumped(tn.run)
    /\ tn' = [tn EXCEPT !.pc = "dump_scaler"]
    /\ UNCHANGED <<proc, traffic_model, scaler, scaler_pkl, nruns, redisUp,
                   historical_traffic, prediction_cache, req, train>>

TnDumpScalerOpen ==
    /\ tn.pc = "dump_scaler"
    /\ scaler_pkl' = Partial
    /\ tn' = [tn EXCEPT !.pc = "dump_scaler_write"]
    /\ UNCHANGED <<proc, traffic_model, scaler, model_pkl, nruns, redisUp,
                   historical_traffic, prediction_cache, req, train>>

TnDumpScalerWrite ==
    /\ tn.pc = "dump_scaler_write"
    /\ scaler_pkl' = Dumped(tn.run)
    /\ tn' = [tn EXCEPT !.pc = "return"]
    /\ UNCHANGED <<proc, traffic_model, scaler, model_pkl, nruns, redisUp,
                   historical_traffic, prediction_cache, req, train>>

-----------------------------------------------------------------------------
(* startup_event / initialize_model *)

Start ==
    /\ proc = "down"
    /\ proc' = "load_model"
    /\ traffic_model' = None
    /\ scaler' = None
    /\ UNCHANGED <<model_pkl, scaler_pkl, nruns, tn, redisUp, historical_traffic,
                   prediction_cache, req, train>>

\* What initialize_model does when a joblib.load has run: FileNotFoundError
\* is handled by training, any other error of a load ends the startup.
AfterLoad(file, next) ==
    CASE file.state = "ok"      -> next
      [] file.state = "absent"  -> "train"
      [] file.state = "partial" -> "down"

\* Line 93: traffic_model = joblib.load(...model.pkl)
InitLoadModel ==
    /\ proc = "load_model"
    /\ proc' = AfterLoad(model_pkl, "load_scaler")
    /\ traffic_model' = IF model_pkl.state = "ok" THEN model_pkl.run ELSE None
    /\ tn' = IF model_pkl.state = "absent" THEN [pc |-> "fit", run |-> None] ELSE tn
    /\ UNCHANGED <<scaler, model_pkl, scaler_pkl, nruns, redisUp, historical_traffic,
                   prediction_cache, req, train>>

\* Line 94: scaler = joblib.load(...scaler.pkl)
InitLoadScaler ==
    /\ proc = "load_scaler"
    /\ proc' = AfterLoad(scaler_pkl, "up")
    /\ scaler' = IF scaler_pkl.state = "ok" THEN scaler_pkl.run ELSE None
    /\ traffic_model' = IF scaler_pkl.state = "partial" THEN None ELSE traffic_model
    /\ tn' = IF scaler_pkl.state = "absent" THEN [pc |-> "fit", run |-> None] ELSE tn
    /\ UNCHANGED <<model_pkl, scaler_pkl, nruns, redisUp, historical_traffic,
                   prediction_cache, req, train>>

\* What line 98 leaves in the globals when train_new_model() has returned
\* pair: the call is a bare expression statement, its value is dropped, and
\* train_new_model has no global statement, so the globals stay as they were.
InitBind(pair, old) == old

\* Line 98: train_new_model() has returned; startup is complete.
InitTrained ==
    /\ proc = "train"
    /\ tn.pc = "return"
    /\ proc' = "up"
    /\ traffic_model' = InitBind(<<tn.run, tn.run>>, <<traffic_model, scaler>>)[1]
    /\ scaler' = InitBind(<<tn.run, tn.run>>, <<traffic_model, scaler>>)[2]
    /\ tn' = IdleTn
    /\ UNCHANGED <<model_pkl, scaler_pkl, nruns, redisUp, historical_traffic,
                   prediction_cache, req, train>>

-----------------------------------------------------------------------------
(* predict_traffic and its callers *)

Min(a, b) == IF a < b THEN a ELSE b
Max(a, b) == IF a > b THEN a ELSE b
Abs(a) == IF a < 0 THEN -a ELSE a

PredictedCongestionUnclamped(speed) == ((BaseSpeed - speed) * 100) \div BaseSpeed

\* Line 197: max(0, min(1, (base_speed - predicted_speed) / base_speed)).
PredictedCongestion(speed) ==
    Max(0, Min(100, ((BaseSpeed - speed) * 100) \div BaseSpeed))

\* Line 206: min(0.95, max(0.5, 1 - abs(predicted_congestion - 0.5))).
Confidence(c) == Min(95, Max(50, 100 - Abs(c - 50)))

\* Lines 200-207: the TrafficPrediction built from a predicted speed.
MakePrediction(seg, speed) ==
    [segment_id |-> seg, predicted_speed |-> speed,
     predicted_congestion |-> PredictedCongestion(speed),
     confidence |-> Confidence(PredictedCongestion(speed))]

\* Lines 211-215: redis_client.setex(prediction_key, prediction.json(), ex=1800).
SetexCall == [positional |-> 2, keywords |-> {"ex"}]

\* redis-py's setex(name, time, value): Python refuses the call before
\* anything is sent when a keyword is none of its parameters.
RedisSetex(call, up) ==
    IF ~(call.keywords \subseteq {"name", "time", "value"}) THEN "TypeError"
    ELSE IF call.positional + Cardinality(call.keywords) # 3 THEN "TypeError"
    ELSE IF ~up THEN "ConnectionError"
    ELSE "OK"

\* predict_traffic is entered for item k of the request.
StartItem(r, k) ==
    [r EXCEPT !.i = k, !.pc = "check", !.visited = Append(@, k),
              !.hist = NoHist, !.prediction = NoPrediction,
              !.startModel = traffic_model, !.startScaler = scaler,
              !.usedModel = None, !.usedScaler = None]

\* The response 500 of a request whose predict_traffic raised at `at`.
Failed(r, at) ==
    [r EXCEPT !.pc = "done", !.status = 500, !.raisedAt = at,
              !.hist = NoHist, !.prediction = NoPrediction, !.predictions = <<>>,
              !.startModel = None, !.startScaler = None,
              !.usedModel = None, !.usedScaler = None]

Finished(r, preds) ==
    [r EXCEPT !.pc = "done", !.status = 200, !.raisedAt = "",
              !.hist = NoHist, !.prediction = NoPrediction, !.predictions = preds,
              !.startModel = None, !.startScaler = None,
              !.usedModel = None, !.usedScaler = None]

predict_batch_skip_item(r, at) ==
    IF r.i < Len(r.items) THEN StartItem(r, r.i + 1) ELSE Finished(r, r.predictions)

\* Lines 259-261: any exception of an item ends the batch with a 500.
predict_batch_except(r, at) == Failed(r, at)

\* predict_traffic raised HTTPException(500): /predict/traffic re-raises it
\* (lines 243-244), a direct caller receives it, /predict/batch catches it.
OnRaise(r, at) ==
    IF r.kind = "batch" THEN predict_batch_except(r, at) ELSE Failed(r, at)

\* predict_traffic returned p: the endpoint returns it; the batch appends it
\* and goes on to the next item, or returns the list (lines 254-258).
OnReturn(r, p) ==
    IF r.kind = "batch"
        THEN IF r.i < Len(r.items)
                 THEN [StartItem(r, r.i + 1) EXCEPT !.predictions = Append(@, p)]
                 ELSE Finished(r, Append(r.predictions, p))
        ELSE Finished(r, <<p>>)

BatchLists == UNION {[1..n -> TrafficData] : n \in 0..MaxBatch}

ReqUnchanged ==
    UNCHANGED <<proc, traffic_model, scaler, model_pkl, scaler_pkl, nruns, tn,
                redisUp, historical_traffic, prediction_cache, train>>

\* POST /predict/traffic
PredictTrafficEndpoint(obs) ==
    /\ proc = "up" /\ ~ReqBusy /\ EventLoopFree
    /\ req' = StartItem([IdleReq EXCEPT !.kind = "single", !.items = <<obs>>], 1)
    /\ ReqUnchanged

\* predict_traffic called as a function with an object of the caller's own.
PredictTrafficCall(obs) ==
    /\ proc = "up" /\ ~ReqBusy /\ EventLoopFree
    /\ req' = StartItem([IdleReq EXCEPT !.kind = "call", !.items = <<obs>>], 1)
    /\ ReqUnchanged

\* POST /predict/batch
PredictBatchEndpoint(list) ==
    /\ proc = "up" /\ ~ReqBusy /\ EventLoopFree
    /\ req' = IF list = <<>>
                  THEN Finished([IdleReq EXCEPT !.kind = "batch"], <<>>)
                  ELSE StartItem([IdleReq EXCEPT !.kind = "batch", !.items = list], 1)
    /\ ReqUnchanged

\* Lines 154-155
PredictCheck ==
    /\ req.pc = "check"
    /\ req' = IF traffic_model = None \/ scaler = None
                  THEN OnRaise(req, "not_loaded")
                  ELSE [req EXCEPT !.pc = "history"]
    /\ ReqUnchanged

\* Lines 163-178
PredictHistory ==
    /\ req.pc = "history"
    /\ LET h == AvgHistoricalCongestion(historical_traffic[req.items[req.i].segment_id]) IN
       req' = IF ~redisUp THEN OnRaise(req, "lrange")
              ELSE IF h.raised THEN OnRaise(req, "np.mean")
              ELSE [req EXCEPT !.pc = "features", !.hist = h]
    /\ ReqUnchanged

\* Lines 181-187: current_data.weather_impact
PredictFeatures ==
    /\ req.pc = "features"
    /\ req' = IF ~req.items[req.i].has_weather_impact
                  THEN OnRaise(req, "weather_impact")
                  ELSE [req EXCEPT !.pc = "scale"]
    /\ ReqUnchanged

\* Line 190: scaler.transform(features) reads the global scaler
PredictScale ==
    /\ req.pc = "scale"
    /\ req' = [req EXCEPT !.pc = "predict", !.usedScaler = scaler]
    /\ ReqUnchanged

\* Lines 193-207: traffic_model.predict reads the global traffic_model; the
\* prediction is built from the speed it gives.
PredictEstimate(speed) ==
    /\ req.pc = "predict"
    /\ req' = [req EXCEPT !.pc = "cache", !.usedModel = traffic_model,
                          !.prediction = MakePrediction(req.items[req.i].segment_id, speed)]
    /\ ReqUnchanged

\* Lines 209-223: the cache write, the return, and the except around both.
PredictCache ==
    /\ req.pc = "cache"
    /\ LET out == RedisSetex(SetexCall, redisUp)
           seg == req.items[req.i].segment_id
       IN  /\ req' = IF out = "OK" THEN OnReturn(req, req.prediction)
                                   ELSE OnRaise(req, "setex")
           /\ prediction_cache' =
                  IF out = "OK"
                      THEN [prediction_cache EXCEPT ![seg] =
                               [present |-> TRUE, value |-> req.prediction, ttl |-> CacheTtl]]
                      ELSE prediction_cache
    /\ UNCHANGED <<proc, traffic_model, scaler, model_pkl, scaler_pkl, nruns, tn,
                   redisUp, historical_traffic, train>>

-----------------------------------------------------------------------------
(* train_model_endpoint *)

TrainUnchanged ==
    UNCHANGED <<proc, model_pkl, scaler_pkl, nruns, redisUp, historical_traffic,
                prediction_cache, req>>

\* Lines 293-295: every exception raised in the try, the HTTPException of
\* line 286 included, is answered with status 500.
TrainExcept(raised) == 500

\* POST /train/model
TrainModelEndpoint ==
    /\ proc = "up" /\ ~TrainBusy /\ EventLoopFree
    /\ train' = [IdleTrain EXCEPT !.pc = "collect"]
    /\ UNCHANGED <<traffic_model, scaler, tn>>
    /\ TrainUnchanged

\* Lines 267-286
TrainCollect ==
    /\ train.pc = "collect"
    /\ LET data == TrainingData(historical_traffic)
           n == CountValues(data)
       IN  /\ train' =
                  IF ~redisUp
                      THEN [train EXCEPT !.pc = "done", !.raised = 500,
                                         !.status = TrainExcept(500)]
                  ELSE IF n < MinSamples
                      THEN [train EXCEPT !.pc = "done", !.training_data = data,
                                         !.samples = n, !.raised = 400,
                                         !.status = TrainExcept(400)]
                  ELSE [train EXCEPT !.pc = "train", !.training_data = data,
                                     !.samples = n]
           /\ tn' = IF redisUp /\ n >= MinSamples THEN [pc |-> "fit", run |-> None] ELSE tn
    /\ UNCHANGED <<traffic_model, scaler>>
    /\ TrainUnchanged

\* Line 290, first store of the tuple assignment: traffic_model
TrainAssignModel ==
    /\ train.pc = "train"
    /\ tn.pc = "return"
    /\ traffic_model' = tn.run
    /\ train' = [train EXCEPT !.pc = "assign_scaler"]
    /\ tn' = IdleTn
    /\ UNCHANGED scaler
    /\ TrainUnchanged

\* Line 290, second store: scaler; line 292: the response
TrainAssignScaler ==
    /\ train.pc = "assign_scaler"
    /\ scaler' = train.run
    /\ train' = [train EXCEPT !.pc = "done", !.status = 200]
    /\ UNCHANGED <<traffic_model, tn>>
    /\ TrainUnchanged

-----------------------------------------------------------------------------

Next ==
    \/ \E seg \in Segments, run \in HistoryRuns : RecordHistory(seg, run)
    \/ RedisFlip
    \/ Crash
    \/ Start
    \/ InitLoadModel
    \/ InitLoadScaler
    \/ InitTrained
    \/ TnFit
    \/ TnDumpModelOpen
    \/ TnDumpModelWrite
    \/ TnDumpScalerOpen
    \/ TnDumpScalerWrite
    \/ \E obs \in TrafficData : PredictTrafficEndpoint(obs)
    \/ \E obs \in WeatherObjects : PredictTrafficCall(obs)
    \/ \E list \in BatchLists : PredictBatchEndpoint(list)
    \/ PredictCheck
    \/ PredictHistory
    \/ PredictFeatures
    \/ PredictScale
    \/ \E speed \in Speeds : PredictEstimate(speed)
    \/ PredictCache
    \/ TrainModelEndpoint
    \/ TrainCollect
    \/ TrainAssignModel
    \/ TrainAssignScaler

Spec == Init /\ [][Next]_vars

-----------------------------------------------------------------------------
(* Properties *)

UsedPair == <<req.usedModel, req.usedScaler>>
StartPair == <<req.startModel, req.startScaler>>
SlotLoaded == traffic_model # None /\ scaler # None

\* C1: a prediction that has read the scaler and the model used either the
\* pair the globals held when predict_traffic was entered (the pre-retrain
\* pair) or the two members of one training run, as a retrain installs them
\* (a post-retrain pair), never one member of each.
C1_PredictionUsesOnePair ==
    req.pc = "cache" =>
        \/ UsedPair = StartPair
        \/ req.usedModel # None /\ req.usedModel = req.usedScaler

\* A prediction has used the pair that a successful retrain installed.
C1_Witness ==
    /\ req.pc = "cache"
    /\ train.pc = "done" /\ train.status = 200
    /\ UsedPair = <<train.run, train.run>>

\* C2: once startup has completed without error the Estimator and the Scaler
\* are both loaded, and no prediction fails with 'ML model not loaded'.
C2_LoadedAfterStartup ==
    proc = "up" =>
        /\ SlotLoaded
        /\ ~(req.pc = "done" /\ req.raisedAt = "not_loaded")

\* C3: a /predict/traffic request made with both members loaded and Redis
\* reachable is answered with a Prediction, and prediction:<segment_id> then
\* holds exactly that Prediction with an expiry of 1800 seconds.
C3_PredictReturnsAndCaches ==
    (req.kind = "single" /\ req.pc = "done"
        /\ req.raisedAt \notin {"not_loaded", "lrange", "np.mean"}) =>
        /\ req.status = 200
        /\ Len(req.predictions) = 1
        /\ prediction_cache[req.items[1].segment_id] =
               [present |-> TRUE, value |-> req.predictions[1], ttl |-> CacheTtl]

\* C4: a failure of the cache write alone never turns a prediction into an
\* error response.
C4_CacheFailureNotFatal ==
    ~(req.pc = "done" /\ req.raisedAt = "setex" /\ req.status # 200)

\* C5: a retrain that aggregated n samples is answered 400 and leaves the
\* live pair alone when n < 100, and succeeds reporting samples_used = n when
\* n >= 100.
C5_RetrainThreshold ==
    (train.pc = "done" /\ train.raised # 500) =>
        IF train.samples < MinSamples
            THEN train.status = 400 /\ train.run = None
            ELSE train.status = 200 /\ train.samples = CountValues(train.training_data)

\* C6: the pair a successful retrain installs was fitted on the rows that the
\* retrain aggregated from the historical store.
C6_FitOnAggregatedRows ==
    (train.pc = "done" /\ train.status = 200) => train.fitOn = train.training_data

\* C7: a batch visits its items one by one in input order; when an item
\* fails the call fails, returns no prediction and visits no later item; when
\* none fails it returns one prediction per item, in input order.
C7_BatchFailFast ==
    req.kind = "batch" =>
        /\ \A k \in 1..Len(req.visited) : req.visited[k] = k
        /\ Len(req.visited) = req.i
        /\ req.pc = "done" =>
            /\ req.status \in {200, 500}
            /\ req.status = 500 => req.predictions = <<>> /\ req.raisedAt # ""
            /\ req.status = 200 =>
                /\ Len(req.predictions) = Len(req.items)
                /\ Len(req.visited) = Len(req.items)
                /\ \A k \in 1..Len(req.items) :
                       req.predictions[k].segment_id = req.items[k].segment_id

\* A batch of several items has failed at an item that is not its last.
C7_Witness ==
    /\ req.kind = "batch" /\ req.pc = "done" /\ req.status = 500
    /\ req.raisedAt = "weather_impact"
    /\ req.i < Len(req.items)

FractionEq(a, b) == a.num * b.den = b.num * a.den

\* The congestion value an entry contributes when it parses: its numeric
\* congestion_factor, and the default for an object that carries none.
Usable(raw) ==
    LET t == TryCongestion(raw) IN t.appended /\ t.value.isnum

RECURSIVE UsableValues(_)
UsableValues(data) ==
    IF data = <<>> THEN <<>>
    ELSE IF Usable(Head(data)[1])
        THEN <<(<<TryCongestion(Head(data)[1]).value, Head(data)[2]>>)>>
                 \o UsableValues(Tail(data))
        ELSE UsableValues(Tail(data))

MeanOfUsable(data) ==
    IF UsableValues(data) = <<>>
        THEN [num |-> DefaultCongestion, den |-> 1]
        ELSE [num |-> SumValues(UsableValues(data)), den |-> CountValues(UsableValues(data))]

\* C8: when the history has been read, the historical_congestion feature is
\* the mean of the congestion values of the entries that parse, or 0.3 when
\* none does, and no entry makes the prediction fail there.
C8_HistoryFeature ==
    [][(req.pc = "history" /\ redisUp /\ req'.pc \in {"features", "done"}) =>
          /\ req'.pc = "features"
          /\ FractionEq(req'.hist,
                        MeanOfUsable(historical_traffic[req.items[req.i].segment_id]))]_vars

\* C9: the Prediction built from any predicted speed has predicted_congestion
\* in [0,1] and confidence in [0.5,0.95]; the congestion is 1 for a speed <= 0
\* and 0 for a speed >= 50.
C9_DerivedRanges ==
    req.pc = "cache" =>
        LET p == req.prediction IN
        /\ p.predicted_congestion >= 0 /\ p.predicted_congestion <= 100
        /\ p.confidence >= 50 /\ p.confidence <= 95
        /\ p.predicted_speed <= 0 => p.predicted_congestion = 100
        /\ p.predicted_speed >= BaseSpeed => p.predicted_congestion = 0

\* A prediction has been built from a negative predicted speed.
C9_Witness ==
    req.pc = "cache" /\ req.prediction.predicted_speed < 0

\* C10: whenever the process serves and no retrain is in progress, the globals
\* hold no Estimator and no Scaler, or the two members of one training run.
C10_SlotHoldsOnePair ==
    (proc = "up" /\ ~TrainBusy) =>
        \/ traffic_model = None /\ scaler = None
        \/ SlotLoaded /\ traffic_model = scaler

====
